---------------------------- MODULE Spec2Model ----------------------------
(***************************************************************************)
(* A model of esm_alarm_export.py: the ESM client (login, logout, post,    *)
(* the legacy codec) and the paginated alarm export of main.               *)
(*                                                                         *)
(* Text is a sequence of one-character strings, so that the string         *)
(* operations of the code (upper, replace, split, search, unquote,         *)
(* slicing) are computed as Python computes them.  A character that has    *)
(* no printable form is written "<n>", n its decimal code.                 *)
(***************************************************************************)
EXTENDS Integers, Sequences, FiniteSets, Bags, TLC

(***************************************************************************)
(* Characters                                                              *)
(***************************************************************************)

\* The printable ASCII characters, code 32 (space) to 126, in code order
\* (the grave accent, code 96, is written "<96>").
Ascii ==
  << " ", "!", "\"", "#", "$", "%", "&", "'", "(", ")", "*", "+", ",", "-",
     ".", "/", "0", "1", "2", "3", "4", "5", "6", "7", "8", "9", ":", ";",
     "<", "=", ">", "?", "@", "A", "B", "C", "D", "E", "F", "G", "H", "I",
     "J", "K", "L", "M", "N", "O", "P", "Q", "R", "S", "T", "U", "V", "W",
     "X", "Y", "Z", "[", "\\", "]", "^", "_", "<96>", "a", "b", "c", "d", "e",
     "f", "g", "h", "i", "j", "k", "l", "m", "n", "o", "p", "q", "r", "s",
     "t", "u", "v", "w", "x", "y", "z", "{", "|", "}", "~" >>

\* chr(n) for a code below 128; "\n" is the line feed.
Chr(n) ==
  IF n >= 32 /\ n <= 126 THEN Ascii[n - 31]
  ELSE IF n = 10 THEN "\n"
  ELSE "<" \o ToString(n) \o ">"

\* ord(c) of a printable character, 0 for any other.
Ord(c) ==
  IF \E i \in 1..Len(Ascii) : Ascii[i] = c
  THEN 31 + CHOOSE i \in 1..Len(Ascii) : Ascii[i] = c
  ELSE 0

\* str.upper() on one character: the 26 ASCII lower-case letters move to
\* their capitals, every other character of the table is unchanged.
UpperOf(c, o) == IF o >= 97 /\ o <= 122 THEN Chr(o - 32) ELSE c
UpperChar(c) == UpperOf(c, Ord(c))

\* str.upper()
Upper(s) == [i \in 1..Len(s) |-> UpperChar(s[i])]

\* The characters str.split() treats as white space (str.isspace), among the
\* characters below 128.
IsSpace(c) ==
  c \in {" ", "\n", "<9>", "<11>", "<12>", "<13>", "<28>", "<29>", "<30>", "<31>"}

(***************************************************************************)
(* String operations                                                       *)
(***************************************************************************)

\* s[i:] with a 1-based first index.
From(s, i) == SubSeq(s, i, Len(s))

\* s.startswith(p)
StartsWith(s, p) == Len(s) >= Len(p) /\ SubSeq(s, 1, Len(p)) = p

\* str.find(sub) as a 1-based index, 0 when sub does not occur.
Occurs(s, sub, i) == SubSeq(s, i, i + Len(sub) - 1) = sub
Find(s, sub) ==
  IF \E i \in 1..(Len(s) - Len(sub) + 1) : Occurs(s, sub, i)
  THEN CHOOSE i \in 1..(Len(s) - Len(sub) + 1) :
         Occurs(s, sub, i) /\ \A j \in 1..(i - 1) : ~Occurs(s, sub, j)
  ELSE 0

\* str.replace(old, new): the occurrences of old, left to right and not
\* overlapping, become new; at is the place of the first one, 0 when there
\* is none.  old is never empty here.
RECURSIVE Replace(_, _, _)
ReplaceAt(s, old, new, at) ==
  IF at = 0 THEN s
  ELSE SubSeq(s, 1, at - 1) \o new \o Replace(From(s, at + Len(old)), old, new)
Replace(s, old, new) == ReplaceAt(s, old, new, Find(s, old))

\* str.split() with no argument: the maximal runs of characters that are
\* not white space, in order; no empty string is ever produced.
RECURSIVE SplitAcc(_, _, _)
SplitAcc(s, cur, acc) ==
  IF s = <<>> THEN (IF cur = <<>> THEN acc ELSE Append(acc, cur))
  ELSE IF IsSpace(Head(s))
       THEN SplitAcc(Tail(s), <<>>, IF cur = <<>> THEN acc ELSE Append(acc, cur))
       ELSE SplitAcc(Tail(s), Append(cur, Head(s)), acc)

Split(s) == SplitAcc(s, <<>>, <<>>)

\* t up to the character before position at, all of t when at is 0.
UpTo(t, at) == IF at = 0 THEN t ELSE SubSeq(t, 1, at - 1)

\* sep.join(parts)
RECURSIVE Join(_, _)
Join(sep, parts) ==
  IF parts = <<>> THEN <<>>
  ELSE IF Len(parts) = 1 THEN parts[1]
  ELSE parts[1] \o sep \o Join(sep, Tail(parts))

\* The value of a hexadecimal digit, -1 for any other character.
HexOf(o) ==
  IF o >= 48 /\ o <= 57 THEN o - 48
  ELSE IF o >= 65 /\ o <= 70 THEN o - 55
  ELSE IF o >= 97 /\ o <= 102 THEN o - 87
  ELSE -1
HexVal(c) == HexOf(Ord(c))

\* urllib.parse.unquote: "%" followed by two hexadecimal digits becomes the
\* character of that code; any other "%" stays.  A byte of 128 or more that
\* starts no UTF-8 sequence decodes to the replacement character.
ByteChar(n) == IF n < 128 THEN Chr(n) ELSE "<65533>"
RECURSIVE Unquote(_)
Unquote(s) ==
  IF s = <<>> THEN <<>>
  ELSE IF /\ Head(s) = "%"
          /\ Len(s) >= 3
          /\ HexVal(s[2]) >= 0
          /\ HexVal(s[3]) >= 0
       THEN <<ByteChar(16 * HexVal(s[2]) + HexVal(s[3]))>> \o Unquote(From(s, 4))
       ELSE <<Head(s)>> \o Unquote(Tail(s))

(***************************************************************************)
(* Python values                                                           *)
(***************************************************************************)

\* A value a call returns: None, a str, a list, a dict (a function from its
\* keys), or the raw transport response.  cb marks a value a callback was
\* applied to (the callback is any function; only its application is kept).
NoneVal == [kind |-> "None", text |-> <<>>, items |-> <<>>, map |-> <<>>, cb |-> FALSE]
TextVal(t) == [NoneVal EXCEPT !.kind = "str", !.text = t]
ListVal(xs) == [NoneVal EXCEPT !.kind = "list", !.items = xs]
DictVal(m) == [NoneVal EXCEPT !.kind = "dict", !.map = m]
RawVal == [NoneVal EXCEPT !.kind = "response"]

\* A dict given as data: its entries in order, each value a str, None, or a
\* nested dict (obj) whose JSON text is val.  NoData is data=None.
ObjParam(k, json) == [key |-> k, val |-> json, none |-> FALSE, obj |-> TRUE]
StrParam(k, v) == [key |-> k, val |-> v, none |-> FALSE, obj |-> FALSE]
NullParam(k) == [key |-> k, val |-> <<>>, none |-> TRUE, obj |-> FALSE]
NoData == [none |-> TRUE, items |-> <<>>]
Data(entries) == [none |-> FALSE, items |-> entries]

\* Python truth of data: None and the empty dict are false.
Truthy(data) == ~data.none /\ data.items # <<>>

\* json.dumps of a str made of printable ASCII: quoted, with the quote and
\* the backslash escaped.
JsonStr(t) ==
  <<"\"">> \o Replace(Replace(t, <<"\\">>, <<"\\", "\\">>), <<"\"">>, <<"\\", "\"">>)
           \o <<"\"">>

\* json.dumps(data) of a dict, with the default separators ', ' and ': '.
JsonDumps(entries) ==
  <<"{">> \o Join(<<",", " ">>,
                  [i \in 1..Len(entries) |->
                     JsonStr(entries[i].key) \o <<":", " ">> \o
                     (IF entries[i].none THEN <<"n", "u", "l", "l">>
                      ELSE IF entries[i].obj THEN entries[i].val
                      ELSE JsonStr(entries[i].val))])
          \o <<"}">>

\* The base64 alphabet.
B64Chars ==
  <<"A", "B", "C", "D", "E", "F", "G", "H", "I", "J", "K", "L", "M", "N", "O", "P", "Q", "R", "S", "T", "U", "V", "W", "X", "Y", "Z",
     "a", "b", "c", "d", "e", "f", "g", "h", "i", "j", "k", "l", "m", "n", "o", "p", "q", "r", "s", "t", "u", "v", "w", "x", "y", "z",
     "0", "1", "2", "3", "4", "5", "6", "7", "8", "9", "+", "/">>

\* base64.b64encode of a text of characters below 128: three bytes give four
\* characters, and a last group of one or two bytes is padded with '='.
ByteAt(t, i) == IF i <= Len(t) THEN Ord(t[i]) ELSE 0
B64Group(n, w) ==
  << B64Chars[(w \div 262144) + 1],
     B64Chars[((w \div 4096) % 64) + 1],
     IF n >= 2 THEN B64Chars[((w \div 64) % 64) + 1] ELSE "=",
     IF n >= 3 THEN B64Chars[(w % 64) + 1] ELSE "=" >>
RECURSIVE b64encode(_)
b64encode(t) ==
  IF t = <<>> THEN <<>>
  ELSE B64Group(Len(t), (ByteAt(t, 1) * 256 + ByteAt(t, 2)) * 256 + ByteAt(t, 3))
         \o b64encode(From(t, 4))

(***************************************************************************)
(* The legacy codec: ESM._format_params, ESM._format_resp, dehexify        *)
(***************************************************************************)

\* The field separator and the pair separator of the legacy wire format.
FS == <<"%", "1", "3">>
PS == <<"%", "1", "4">>

\* The first table of dehexify, in the order of the dict: (code, character).
hexen ==
  << <<<<"<28>">>, <<",">>>>,
     <<<<"<17>">>, <<",">>>>,
     <<<<"<18>">>, <<"\n">>>>,
     <<<<"\"">>, <<"\"">>>>,
     <<<<"#">>, <<"#">>>>,
     <<<<"'">>, <<"'">>>>,
     <<<<"(">>, <<"(">>>>,
     <<<<")">>, <<")">>>>,
     <<<<"+">>, <<"+">>>>,
     <<<<"-">>, <<"-">>>>,
     <<<<".">>, <<".">>>>,
     <<<<"/">>, <<"/">>>>,
     <<<<"|">>, <<"|">>>> >>

\* The second table of dehexify, in the order of the dict.
uri ==
  << <<<<"%", "1", "1">>, <<",">>>>,
     <<<<"%", "1", "2">>, <<"\n">>>>,
     <<<<"%", "2", "0">>, <<" ">>>>,
     <<<<"%", "2", "2">>, <<"\"">>>>,
     <<<<"%", "2", "3">>, <<"#">>>>,
     <<<<"%", "2", "7">>, <<"'">>>>,
     <<<<"%", "2", "8">>, <<"(">>>>,
     <<<<"%", "2", "9">>, <<")">>>>,
     <<<<"%", "2", "B">>, <<"+">>>>,
     <<<<"%", "2", "D">>, <<"-">>>>,
     <<<<"%", "2", "E">>, <<".">>>>,
     <<<<"%", "2", "F">>, <<"/">>>>,
     <<<<"%", "3", "A">>, <<":">>>>,
     <<<<"%", "7", "C">>, <<"|">>>> >>

\* One loop of dehexify: data.replace(enc, dec) for every entry of a table,
\* in order.
RECURSIVE ReplaceAll(_, _)
ReplaceAll(data, table) ==
  IF table = <<>> THEN data
  ELSE IF Find(data, Head(table)[1]) = 0 THEN ReplaceAll(data, Tail(table))
  ELSE ReplaceAll(Replace(data, Head(table)[1], Head(table)[2]), Tail(table))

\* The two tables, and then every other percent escape as well.
dehexifyUnquote(data) == Unquote(ReplaceAll(ReplaceAll(data, hexen), uri))

\* dehexify(data)
dehexify(data) == ReplaceAll(ReplaceAll(data, hexen), uri)

\* The comprehension of line 268: the entries whose value is not None.
DropNone(params) == SelectSeq(params, LAMBDA e : ~e.none)

\* ESM._format_params(cmd, **params); params is the sequence of the keyword
\* arguments, in call order.
\* Lines 271 and 272: the pairs, each key + '%13' + val + '%13', joined
\* by '%14'.
JoinPairs(kept) ==
  Join(PS, [i \in 1..Len(kept) |-> kept[i].key \o FS \o kept[i].val \o FS])

\* 'Request=API%13' + cmd + '%13%14'
RequestPrefix(cmd) ==
  <<"R", "e", "q", "u", "e", "s", "t", "=", "A", "P", "I", "%", "1", "3">>
    \o cmd \o FS \o PS

\* The pair separator closes the text whether there are pairs or not.
WithPrefixClosed(cmd, joined) == RequestPrefix(cmd) \o joined \o PS

\* Lines 273 to 276.
WithPrefix(cmd, joined) ==
  IF joined # <<>> THEN RequestPrefix(cmd) \o joined \o PS ELSE RequestPrefix(cmd)

_format_params(cmd, params) == WithPrefix(cmd, JoinPairs(DropNone(params)))

\* The literal text of the pattern of line 284.
ResponseMarker == <<"R", "e", "s", "p", "o", "n", "s", "e", "=">>

\* re.search('Response=(.*)', resp): the text after the first 'Response=' up
\* to the end of its line ('.' matches no line feed); found is FALSE when
\* search returns None.
FirstLine(t) == UpTo(t, Find(t, <<"\n">>))
\* A search that finds an empty group where there is no marker.
GroupAtEmpty(resp, at) ==
  IF at = 0 THEN [found |-> TRUE, group |-> <<>>]
  ELSE [found |-> TRUE, group |-> FirstLine(From(resp, at + Len(ResponseMarker)))]
GroupAt(resp, at) ==
  IF at = 0 THEN [found |-> FALSE, group |-> <<>>]
  ELSE [found |-> TRUE, group |-> FirstLine(From(resp, at + Len(ResponseMarker)))]
SearchResponse(resp) == GroupAt(resp, Find(resp, ResponseMarker))

\* The last token as it is.
DecodeValueRaw(key, last) == last

\* Lines 292 to 295: the value of a pair, from its last token.
DecodeValue(key, last) ==
  IF key = <<"I", "T", "E", "M", "S">> THEN dehexify(last) ELSE Unquote(last)

\* The loop of _format_resp over the pairs: a dict is a function from its
\* keys, a later pair with the same key replaces the earlier one, and a pair
\* with no token at all raises IndexError at pair[0].
RECURSIVE DecodePairs(_, _)
DecodePair(pair, rest, formatted) ==
  IF pair = <<>> THEN [err |-> "IndexError", value |-> formatted]
  ELSE DecodePairs(rest, (pair[1] :> DecodeValue(pair[1], pair[Len(pair)]))
                           @@ formatted)
DecodePairs(pairs, formatted) ==
  IF pairs = <<>> THEN [err |-> "", value |-> formatted]
  ELSE DecodePair(Split(Replace(Head(pairs), FS, <<" ">>)), Tail(pairs), formatted)

\* ESM._format_resp(resp) on a text: the decoded dict, or the exception the
\* call raises (search returning None has no group: AttributeError).
DecodeGroup(m) ==
  IF ~m.found THEN [err |-> "AttributeError", value |-> <<>>]
  ELSE DecodePairs(Split(Replace(m.group, PS, <<" ">>)), <<>>)
_format_resp(resp) == DecodeGroup(SearchResponse(resp))

(***************************************************************************)
(* The ESM client: construction                                            *)
(***************************************************************************)

\* The host, user name and password the configuration supplies.
hostname == <<"e", "s", "m">>
username == <<"a", "d", "m", "i", "n">>
password == <<"p", "w">>

\* self._base_url and self._int_url
_base_url == <<"h", "t", "t", "p", "s", ":", "/", "/">> \o hostname \o <<"/", "r", "s", "/", "e", "s", "m", "/">>
_int_url == <<"h", "t", "t", "p", "s", ":", "/", "/">> \o hostname \o <<"/", "e", "s", "s">>

\* self._v9_b64_creds, decoded
_v9_b64_creds == b64encode(username \o <<":">> \o password)

\* self._v10_params
_v10_params ==
  Data(<< StrParam(<<"u", "s", "e", "r", "n", "a", "m", "e">>, b64encode(username)),
          StrParam(<<"p", "a", "s", "s", "w", "o", "r", "d">>, b64encode(password)),
          StrParam(<<"l", "o", "c", "a", "l", "e">>, <<"e", "n", "_", "U", "S">>),
          StrParam(<<"o", "s">>, <<"W", "i", "n", "3", "2">>) >>)

\* A header dict is a function from header names to values; a value is a
\* text, and NoValue stands for None (headers.get of a missing header).
\* NoHeaders stands for headers=None.
NoValue == <<"<None>">>
NoHeaders == ("<None>" :> NoValue)

\* self._headers after __init__, and again at line 143.
JsonHeaders == ("Content-Type" :> <<"a", "p", "p", "l", "i", "c", "a", "t", "i", "o", "n", "/", "j", "s", "o", "n">>)

\* self._headers as login sets it before its request.
BasicHeaders ==
  ("Authorization" :> (<<"B", "a", "s", "i", "c", " ">> \o _v9_b64_creds)) @@ JsonHeaders

\* self._headers after a login that was not rejected, from the response
\* headers h.
SessionHeaders(h) ==
  ("SID" :> h.Location) @@ ("X-Xsrf-Token" :> h.XsrfToken)
    @@ ("Cookie" :> h.SetCookie) @@ JsonHeaders

(***************************************************************************)
(* ESM.post                                                                *)
(***************************************************************************)

\* str.isupper() in place of the comparison: a name without a cased
\* character, such as '42', is not upper case.
IsLegacyIsUpper(method) ==
  method = Upper(method) /\ \E i \in 1..Len(method) : UpperChar(method[i]) # method[i]
                          \/ (65 <= Ord(method[i]) /\ Ord(method[i]) <= 90)

\* The test of line 206 and of line 231.
IsLegacy(method) == method = Upper(method)

\* Lines 202 to 212 of post: the URL and the body of the request, or the
\* exception raised before any request is sent.  A body is a text, or the
\* data itself when it is None or an empty dict (form "None", "dict").
TextBody(t) == [form |-> "text", text |-> t]
\* json.dumps of the data whatever it is: 'null' for None, '{}' for {}.
EmptyBodyDumped(data) ==
  [form |-> "text", text |-> IF data.none THEN <<"n", "u", "l", "l">> ELSE <<"{", "}">>]
EmptyBody(data) == [form |-> IF data.none THEN "None" ELSE "dict", text |-> <<>>]
Prepared(error, u, b) == [err |-> error, url |-> u, body |-> b]
PostPrepare(method, data) ==
  IF method = <<>> THEN Prepared("ValueError", <<>>, TextBody(<<>>))
  ELSE IF IsLegacy(method)
  THEN IF data.none \/ \E i \in 1..Len(data.items) : data.items[i].obj
       THEN Prepared("TypeError", _int_url, TextBody(<<>>))
       ELSE Prepared("", _int_url, TextBody(_format_params(method, data.items)))
  ELSE Prepared("", _base_url \o method,
                IF Truthy(data) THEN TextBody(JsonDumps(data.items))
                ELSE EmptyBody(data))

\* A response body: a JSON object with or without a 'return' field, JSON
\* that is no object (json() gives a list or a scalar), or text that is not
\* JSON.
JsonObject(v) == [form |-> "object", hasReturn |-> TRUE, ret |-> v, text |-> <<>>]
JsonNoReturn == [form |-> "object", hasReturn |-> FALSE, ret |-> NoneVal, text |-> <<>>]
JsonOther == [form |-> "other", hasReturn |-> FALSE, ret |-> NoneVal, text |-> <<>>]
NotJson(t) == [form |-> "text", hasReturn |-> FALSE, ret |-> NoneVal, text |-> t]

\* The callback of a call, when one is supplied.
Callback(v) == [v EXCEPT !.cb = TRUE]

\* The range without its upper end.
IsSuccessBelow300(status) == 200 <= status /\ status < 300

\* The success range of line 225.
IsSuccess(status) == 200 <= status /\ status <= 300

\* The retry on every server error.
IsRetryServerError(status) == status >= 500

\* The retry test of line 221.
IsRetry(status) == status = 500

\* Lines 226 to 230: json() and get('return'), or the text when the body is
\* not JSON; get on JSON that is no object raises AttributeError.
Extract(body) ==
  IF body.form = "object"
  THEN [err |-> "", value |-> IF body.hasReturn THEN body.ret ELSE NoneVal]
  ELSE IF body.form = "other" THEN [err |-> "AttributeError", value |-> NoneVal]
  ELSE [err |-> "", value |-> TextVal(body.text)]

\* Lines 231 and 232: the legacy decoding; re.search on a value that is no
\* str raises TypeError.
AsDict(d) ==
  IF d.err # "" THEN [err |-> d.err, value |-> NoneVal]
  ELSE [err |-> "", value |-> DictVal(d.value)]
LegacyDecode(v) ==
  IF v.kind # "str" THEN [err |-> "TypeError", value |-> NoneVal]
  ELSE AsDict(_format_resp(v.text))

\* Lines 225 to 235 of post, for the final response of a call that is not
\* raw: what the call returns (explicit is TRUE at the return of line 235,
\* FALSE when the method ends without one), or the exception it raises.
Decoded(method, x) ==
  IF x.err = "" /\ IsLegacy(method) THEN LegacyDecode(x.value) ELSE x
Finish(callback, y) ==
  IF y.err # "" THEN [err |-> y.err, value |-> NoneVal, explicit |-> FALSE]
  ELSE [err |-> "", explicit |-> TRUE,
        value |-> IF callback THEN Callback(y.value) ELSE y.value]
PostFinish(method, callback, r) ==
  IF ~IsSuccess(r.status)
  THEN [err |-> "", value |-> NoneVal, explicit |-> FALSE]
  ELSE Finish(callback, Decoded(method, Extract(r.body)))

(***************************************************************************)
(* ESM.login, ESM.export_alarms, convert_date                              *)
(***************************************************************************)

\* The first test on 401 alone.
LoginOutcome401(status) ==
  IF status = 401 THEN "invalid"
  ELSE IF 402 <= status /\ status <= 600 THEN "error"
  ELSE "session"

\* The second test without its upper end.
LoginOutcomeBelow600(status) ==
  IF status \in {400, 401} THEN "invalid"
  ELSE IF 402 <= status /\ status < 600 THEN "error"
  ELSE "session"

\* The tests of lines 136 and 139 on the status of the login response.
LoginOutcome(status) ==
  IF status \in {400, 401} THEN "invalid"
  ELSE IF 402 <= status /\ status <= 600 THEN "error"
  ELSE "session"

\* self._method of export_alarms (line 186).
AlarmsMethod(user, s, e) ==
  <<"a", "l", "a", "r", "m", "G", "e", "t", "T", "r", "i", "g", "g", "e", "r", "e", "d", "A", "l", "a", "r", "m", "s", "P", "a", "g", "e", "d", "?", "t", "r", "i", "g", "g", "e", "r", "e", "d", "T", "i", "m", "e", "R", "a", "n", "g", "e", "=", "C", "U", "S", "T", "O", "M", "&", "c", "u", "s", "t", "o", "m", "S", "t", "a", "r", "t", "=">> \o s
    \o <<"&", "c", "u", "s", "t", "o", "m", "E", "n", "d", "=">> \o e \o <<"&", "a", "s", "s", "i", "g", "n", "e", "d", "U", "s", "e", "r">> \o user
    \o <<"&", "p", "a", "g", "e", "S", "i", "z", "e", "=", "0", "&", "p", "a", "g", "e", "N", "u", "m", "b", "e", "r", "=", "0">>

\* The slice with its end included.
SliceInclusive(d, a, b) == SubSeq(d, a + 1, IF b + 1 <= Len(d) THEN b + 1 ELSE Len(d))

\* d[a:b] of Python, 0-based and end-exclusive, cut to the length of d.
Slice(d, a, b) == SubSeq(d, a + 1, IF b <= Len(d) THEN b ELSE Len(d))

\* The date read day first: DD/MM/YYYY.
convert_dateDayFirst(d) ==
  Slice(d, 6, 10) \o <<"-">> \o Slice(d, 3, 5) \o <<"-">> \o Slice(d, 0, 2)
    \o <<"T">> \o Slice(d, 11, 19) \o <<".", "0", "0", "0", "Z">>

\* convert_date(d)
convert_date(d) ==
  Slice(d, 6, 10) \o <<"-">> \o Slice(d, 0, 2) \o <<"-">> \o Slice(d, 3, 5)
    \o <<"T">> \o Slice(d, 11, 19) \o <<".", "0", "0", "0", "Z">>

(***************************************************************************)
(* The server: the environment of the client                               *)
(***************************************************************************)

\* The number of records the server returns at most for one request, and
\* the length main tests a batch against (line 406).
PageCap == 500

\* n as two decimal digits.
Dig2(n) == <<Chr(48 + (n \div 10)), Chr(48 + (n % 10))>>

\* The server's clock counts the seconds of July 2018.  ClockText(t) is
\* 'HH:MM:SS' and DayOf(t) the day of the month.
DayOf(t) == (t \div 86400) + 1
ClockText(t) ==
  Dig2((t \div 3600) % 24) \o <<":">> \o Dig2((t \div 60) % 60) \o <<":">>
    \o Dig2(t % 60)

\* The triggeredDate of an alarm raised at t, as the server writes it:
\* 'MM/DD/YYYY HH:MM:SS'.
DateText(t) == <<"0", "7", "/">> \o Dig2(DayOf(t)) \o <<"/", "2", "0", "1", "8", " ">> \o ClockText(t)

\* The time t as the command line gives a bound: 'YYYY-MM-DDTHH:MM:SS' with
\* '.000Z' added by main (lines 390 and 395).
IsoText(t) ==
  <<"2", "0", "1", "8", "-", "0", "7", "-">> \o Dig2(DayOf(t)) \o <<"T">> \o ClockText(t) \o <<".", "0", "0", "0", "Z">>

\* The number two decimal digits write.
Num2(s, i) == (Ord(s[i]) - 48) * 10 + (Ord(s[i + 1]) - 48)

\* The server's reading of a bound 'YYYY-MM-DDTHH:MM:SS.000Z' of July 2018.
ParseIso(s) ==
  (((Num2(s, 9) - 1) * 24 + Num2(s, 12)) * 60 + Num2(s, 15)) * 60 + Num2(s, 18)

\* The value of query parameter name (with its '=') in a URL: the text up
\* to the next '&'.
UpToAmp(rest) == UpTo(rest, Find(rest, <<"&">>))
QueryParam(url, name) == UpToAmp(From(url, Find(url, name) + Len(name)))

\* The alarms the server holds: count alarms, alarm i raised at
\* first + i * step (step 0: all in the same second), with id i.
AlarmTime(d, i) == d.first + i * d.step
Alarm(d, i) == [id |-> [value |-> i], triggeredDate |-> DateText(AlarmTime(d, i))]

\* The alarms of db raised within [from, to], oldest first.
InWindow(d, from, to) ==
  SelectSeq([i \in 1..d.count |-> i],
            LAMBDA i : from <= AlarmTime(d, i) /\ AlarmTime(d, i) <= to)

\* The server's answer to an alarm request: at most PageCap of the alarms in
\* the window the URL asks for, the newest ones first when db.order is
\* "newest", the oldest ones first otherwise.
Page(d, w) ==
  [k \in 1..(IF Len(w) <= PageCap THEN Len(w) ELSE PageCap) |->
     Alarm(d, IF d.order = "newest" THEN w[Len(w) + 1 - k] ELSE w[k])]
ServerBatch(d, url) ==
  Page(d, InWindow(d, ParseIso(QueryParam(url, <<"c", "u", "s", "t", "o", "m", "S", "t", "a", "r", "t", "=">>)),
                      ParseIso(QueryParam(url, <<"c", "u", "s", "t", "o", "m", "E", "n", "d", "=">>))))

(***************************************************************************)
(* State                                                                   *)
(***************************************************************************)

VARIABLES
  pc,         \* where the program stands: main's next step, or "client"
  exit,       \* "" while running, then the exit status: "0" or "1"
  raised,     \* the exception that ended the run or the last call, or ""
  said,       \* the message the program printed before it exited, or ""
  _headers,   \* self._headers
  call,       \* the arguments of the current call of post, and its caller
  req,        \* the last HTTP request sent
  nreq,       \* the number of HTTP requests sent so far
  posts,      \* the number of POSTs the current call of post has sent
  n500,       \* the number of them answered with status 500 (history)
  failed,     \* TRUE when the last request met a connection failure
  status,     \* the status of the last response received, 0 before any
  body,       \* the body of the last response received
  hdrs,       \* the headers of the last response received
  inpost,     \* TRUE while post stands in its loop of line 221
  start,      \* main's start
  end,        \* main's end
  alarms,     \* main's alarms
  full_list,  \* main's full_list
  fetched,    \* every batch received, in fetch order (history)
  sizes,      \* the length of every batch received (history)
  nfetch,     \* the number of calls of export_alarms so far (history)
  ret,        \* what the last call of the client returned
  db,         \* the alarms the server holds
  cin,        \* the input of the codec functions
  cout        \* the output of the codec functions

mainvars == <<start, end, alarms, full_list, fetched, sizes>>
postvars ==
  <<_headers, call, req, nreq, posts, n500, failed, status, body, hdrs, inpost>>
codecvars == <<cin, cout>>
vars == <<pc, exit, raised, said, postvars, mainvars, nfetch, ret, db, codecvars>>

(***************************************************************************)
(* Bounds and the inputs of the model                                      *)
(***************************************************************************)

\* The server answers at most MaxRetries POSTs of one call with status 500.
MaxRetries == 2

\* main fetches at most MaxFetches batches.
MaxFetches == 3

\* A client that has sent MaxRequests requests starts no further call.
MaxRequests == 2

\* The statuses the server answers with.
Statuses == {199, 200, 300, 301, 400, 401, 402, 500, 502, 600, 601}

\* Response headers with none of the three headers login reads.
NoResponseHeaders == [SetCookie |-> NoValue, XsrfToken |-> NoValue, Location |-> NoValue]

\* The headers of a login response: all three present, or none.
LoginHeaders ==
  { [SetCookie |-> <<"J", "W", "T", "=", "a", "1">>, XsrfToken |-> <<"x", "9">>, Location |-> <<"/", "s", "i", "d", "/", "7">>],
    NoResponseHeaders }

\* The runs of the model: the alarms the server holds (count alarms, alarm
\* i raised at second first + i * step, returned newest or oldest first) and
\* the bounds main is started with, in seconds of the server's clock.
Run(n, s, o, a, b) ==
  [count |-> n, first |-> 50000, step |-> s, order |-> o, from |-> a, to |-> b]
Databases ==
  { Run(0, 1, "newest", 0, 2000000),
    Run(42, 1, "newest", 0, 2000000),
    Run(42, 1, "oldest", 0, 2000000),
    Run(42, 0, "newest", 0, 2000000),
    Run(500, 1, "newest", 0, 2000000),
    Run(500, 0, "newest", 0, 2000000),
    Run(1235, 1, "newest", 0, 2000000),
    Run(1235, 1, "oldest", 0, 2000000),
    Run(1235, 1, "newest", 50010, 50600) }

\* The statuses the server answers an alarm request with.
AlarmStatuses == {200, 300, 301, 500, 502}

\* What the transport does with one request: it fails to connect, or it
\* returns a response.
ConnectionError == [failed |-> TRUE, status |-> 0, body |-> NotJson(<<>>),
                    headers |-> NoResponseHeaders]
Response(st, b, h) == [failed |-> FALSE, status |-> st, body |-> b, headers |-> h]

\* The statuses among S the server may answer the next POST of the current
\* call with, after `sent` POSTs of it: 500 only MaxRetries times in a row.
NextStatuses(S, sent) == IF sent < MaxRetries THEN S ELSE S \ {500}

NoCall == [method |-> <<>>, data |-> NoData, callback |-> FALSE, raw |-> FALSE,
           caller |-> ""]
NoRequest == [verb |-> "", url |-> <<>>, body |-> TextBody(<<>>), headers |-> NoHeaders]
NoReturn == [err |-> "", value |-> NoneVal, explicit |-> FALSE]

\* The client before any request.
InitESM ==
  /\ call = NoCall
  /\ req = NoRequest
  /\ nreq = 0
  /\ posts = 0
  /\ status = 0
  /\ body = NotJson(<<>>)
  /\ hdrs = NoResponseHeaders
  /\ n500 = 0
  /\ failed = FALSE
  /\ inpost = FALSE
  /\ exit = ""
  /\ raised = ""
  /\ said = ""

\* main up to line 399: the bounds are the arguments with '.000Z' added.
Init ==
  /\ InitESM
  /\ _headers = JsonHeaders
  /\ pc = "login"
  /\ db \in Databases
  /\ start = IsoText(db.from)
  /\ end = IsoText(db.to)
  /\ alarms = <<>>
  /\ full_list = <<>>
  /\ fetched = <<>>
  /\ sizes = <<>>
  /\ nfetch = 0
  /\ ret = NoReturn
  /\ cin = <<>>
  /\ cout = <<>>

(***************************************************************************)
(* One exchange of post with the server                                    *)
(***************************************************************************)

\* What one POST of a call of post leads to, x being what the transport
\* did: _post ends the process on a connection failure (line 260); a raw
\* call returns the response (line 218); status 500 goes round the loop
\* of line 221; any other status ends the call in lines 225 to 235.
\* The failure is taken for a response to try again.
FailureRetried == [kind |-> "retry", err |-> "", value |-> NoneVal, explicit |-> FALSE]

\* Lines 258 to 260: _post prints its message and calls sys.exit(1).
Failure == [kind |-> "exit", err |-> "", value |-> NoneVal, explicit |-> FALSE]

Finished(f) ==
  IF f.err # ""
  THEN [kind |-> "raise", err |-> f.err, value |-> NoneVal, explicit |-> FALSE]
  ELSE [kind |-> "return", err |-> "", value |-> f.value, explicit |-> f.explicit]
Outcome(method, callback, raw, x) ==
  IF x.failed THEN Failure
  ELSE IF raw
  THEN [kind |-> "return", err |-> "", value |-> RawVal, explicit |-> TRUE]
  ELSE IF IsRetry(x.status)
  THEN [kind |-> "retry", err |-> "", value |-> NoneVal, explicit |-> FALSE]
  ELSE Finished(PostFinish(method, callback, x))

\* Lines 195 to 215: post records its arguments and sends its first POST.
\* What the client holds of the transport's answer x to its last request.
Received(x) ==
  /\ failed' = x.failed
  /\ status' = IF x.failed THEN status ELSE x.status
  /\ body' = IF x.failed THEN body ELSE x.body
  /\ hdrs' = IF x.failed THEN hdrs ELSE x.headers

\* 1 when x is a response with status 500, 0 otherwise.
Is500(x) == IF ~x.failed /\ x.status = 500 THEN 1 ELSE 0

Called(method, data, callback, raw, caller) ==
  [method |-> method, data |-> data, callback |-> callback, raw |-> raw,
   caller |-> caller]
Posted(method, data, p, callback, raw, headers, caller, x) ==
  /\ call' = Called(method, data, callback, raw, caller)
  /\ req' = [verb |-> "POST", url |-> p.url, body |-> p.body, headers |-> headers]
  /\ nreq' = nreq + 1
  /\ posts' = 1
  /\ n500' = Is500(x)
  /\ Received(x)

\* Lines 222 and 223: the same request is sent again.
Reposted(x) ==
  /\ UNCHANGED <<call, _headers>>
  /\ req' = [verb |-> "POST", url |-> req.url, body |-> req.body,
             headers |-> _headers]
  /\ nreq' = nreq + 1
  /\ posts' = posts + 1
  /\ n500' = n500 + Is500(x)
  /\ Received(x)

\* What the transport may do with the login request.
LoginAnswers ==
  {ConnectionError} \cup
  { Response(st, NotJson(<<>>), h) : st \in Statuses, h \in LoginHeaders }

\* What the transport may do with an alarm request, the current call
\* having sent `sent` POSTs before: a success carries the server's batch,
\* or a body of one of the other forms.
OtherBodies == {JsonNoReturn, NotJson(<<>>), NotJson(<<"b", "u", "s", "y">>)}
BatchAnswers(batch, S) ==
  {ConnectionError} \cup
  { Response(st, batch, NoResponseHeaders) : st \in {t \in S : IsSuccess(t)} } \cup
  { Response(200, b, NoResponseHeaders) : b \in OtherBodies } \cup
  { Response(st, NotJson(<<>>), NoResponseHeaders) : st \in {t \in S : ~IsSuccess(t)} }
AlarmAnswers(url, sent) ==
  BatchAnswers(JsonObject(ListVal(ServerBatch(db, url))),
               NextStatuses(AlarmStatuses, sent))

(***************************************************************************)
(* main                                                                    *)
(***************************************************************************)

\* The process ends: sys.exit(1), or an exception nobody catches (err).
Die(err, msg) ==
  /\ pc' = "exit"
  /\ exit' = "1"
  /\ raised' = err
  /\ said' = msg

\* What _post prints at line 259, and what login prints at lines 137 and 140.
Unable == "Unable to connect to ESM"
LoginSaid(outcome) ==
  IF outcome = "invalid" THEN "Invalid username or password for the ESM"
  ELSE "ESM Login Error"
LoginFailed(x, o) ==
  IF o.kind = "exit" THEN Die("", Unable)
  ELSE Die("", LoginSaid(LoginOutcome(x.status)))

\* Lines 124 to 147 and line 400: login sends its request with the Basic
\* header; a connection failure, or a status of 400 to 600, ends the
\* process; any other status stores the session headers.
LoginPosted(x) ==
  /\ Posted(<<"l", "o", "g", "i", "n">>, _v10_params,
            PostPrepare(<<"l", "o", "g", "i", "n">>, _v10_params), FALSE, TRUE,
            BasicHeaders, "login", x)
  /\ inpost' = FALSE

\* login goes on whatever the status of the response.
LoggedInAlways(x, o) == o.kind = "return"

\* login returns: the request was answered and lines 136 to 141 did not exit.
LoggedIn(x, o) == o.kind = "return" /\ LoginOutcome(x.status) = "session"
MainLoggedIn(x, o) ==
  IF LoggedIn(x, o)
  THEN /\ _headers' = SessionHeaders(x.headers)
       /\ pc' = "fetch"
       /\ UNCHANGED <<exit, raised, said>>
  ELSE /\ _headers' = BasicHeaders
       /\ LoginFailed(x, o)
MainLogin ==
  /\ pc = "login"
  /\ \E x \in LoginAnswers :
       /\ LoginPosted(x)
       /\ MainLoggedIn(x, Outcome(<<"l", "o", "g", "i", "n">>, FALSE, TRUE, x))
  /\ UNCHANGED <<mainvars, ret, db, nfetch, codecvars>>

\* The loop reads on while the batch is not empty.
MoreToFetchNotEmpty(batch) == Len(batch) > 0

\* The test of line 406.
MoreToFetch(batch) == Len(batch) = PageCap

\* Lines 404 to 409 of main, with what export_alarms returned: the batch is
\* added to full_list, and a batch of PageCap records moves end to the date
\* of its last record (alarms[499], IndexError on a shorter list) and asks
\* again.  extend(None) raises TypeError; a str
\* or a dict that is not empty puts str items into full_list, and line 407
\* or the sort of line 410 raises TypeError on them.
MainAfterFetch(v) ==
  IF v.kind = "None" \/ (v.kind = "str" /\ v.text # <<>>)
     \/ (v.kind = "dict" /\ DOMAIN v.map # {})
  THEN /\ Die("TypeError", "")
       /\ UNCHANGED mainvars
  ELSE /\ alarms' = v.items
       /\ full_list' = full_list \o v.items
       /\ fetched' = fetched \o v.items
       /\ sizes' = Append(sizes, Len(v.items))
       /\ start' = start
       /\ IF ~MoreToFetch(v.items)
          THEN /\ end' = end
               /\ pc' = "merge"
               /\ UNCHANGED <<exit, raised, said>>
          ELSE IF Len(v.items) < PageCap
          THEN /\ end' = end
               /\ Die("IndexError", "")
          ELSE /\ end' = convert_date(v.items[PageCap].triggeredDate)
               /\ pc' = "fetch"
               /\ UNCHANGED <<exit, raised, said>>

\* What main does with the outcome of one POST of export_alarms.
MainFetched(o) ==
  /\ inpost' = (o.kind = "retry")
  /\ CASE o.kind = "exit" -> Die("", Unable) /\ UNCHANGED mainvars
       [] o.kind = "raise" -> Die(o.err, "") /\ UNCHANGED mainvars
       [] o.kind = "retry" -> UNCHANGED <<pc, exit, raised, said, mainvars>>
       [] o.kind = "return" -> MainAfterFetch(o.value)

\* Lines 403 and 408 with lines 182 to 188: export_alarms builds its method
\* from the bounds and posts it with the stored headers.
MainExportPost(m, p) ==
  \E x \in AlarmAnswers(p.url, 0) :
    /\ Posted(m, NoData, p, FALSE, FALSE, _headers, "export_alarms", x)
    /\ _headers' = _headers
    /\ MainFetched(Outcome(m, FALSE, FALSE, x))
MainExport(m) == MainExportPost(m, PostPrepare(m, NoData))
MainFetch ==
  /\ pc = "fetch"
  /\ ~inpost
  /\ nfetch < MaxFetches
  /\ nfetch' = nfetch + 1
  /\ MainExport(AlarmsMethod(<<"N", "G", "C", "P">>, start, end))
  /\ UNCHANGED <<ret, db, codecvars>>

\* The loop of line 221, within the export_alarms of main.
MainRetry ==
  /\ pc = "fetch"
  /\ inpost
  /\ \E x \in AlarmAnswers(req.url, posts) :
       /\ Reposted(x)
       /\ MainFetched(Outcome(call.method, call.callback, call.raw, x))
  /\ UNCHANGED <<ret, db, nfetch, codecvars>>

\* The sort with reverse=True.
SortByIdReversed(list) == SortSeq(list, LAMBDA a, b : a.id.value > b.id.value)

\* sorted(full_list, key=lambda d: d['id']['value']): a stable sort,
\* ascending by id.
SortById(list) == SortSeq(list, LAMBDA a, b : a.id.value < b.id.value)

\* Lines 410 to 421: the merge, and the printing of the rows.
MainMerge ==
  /\ pc = "merge"
  /\ full_list' = SortById(full_list)
  /\ pc' = "logout"
  /\ UNCHANGED <<exit, raised, said, postvars, start, end, alarms, fetched, sizes,
                 ret, db, nfetch, codecvars>>

\* What the transport may do with the logout request.
LogoutAnswers ==
  {ConnectionError} \cup
  { Response(st, NotJson(<<>>), NoResponseHeaders) : st \in {200, 500} }

\* Lines 149 to 153 and line 422: logout sends a DELETE with the stored
\* headers and does not look at the response; requests.delete is not
\* guarded, so a connection failure is an exception nobody catches.  Then
\* main returns.
MainLogout ==
  /\ pc = "logout"
  /\ \E x \in LogoutAnswers :
       /\ req' = [verb |-> "DELETE", url |-> _base_url \o <<"l", "o", "g", "o", "u", "t">>,
                  body |-> [form |-> "None", text |-> <<>>], headers |-> _headers]
       /\ nreq' = nreq + 1
       /\ Received(x)
       /\ IF x.failed THEN Die("ConnectionError", "")
          ELSE pc' = "done" /\ exit' = "0" /\ UNCHANGED <<raised, said>>
  /\ UNCHANGED <<_headers, call, posts, n500, inpost, mainvars, ret, db,
                 nfetch, codecvars>>

Next == MainLogin \/ MainFetch \/ MainRetry \/ MainMerge \/ MainLogout

Spec == Init /\ [][Next]_vars

(***************************************************************************)
(* A client of the ESM class: one call on a client that is new or logged   *)
(* in, with any arguments                                                  *)
(***************************************************************************)

\* The command names, data, and response bodies the calls are tried with.
Methods == {<<>>, <<"l", "o", "g", "i", "n">>, <<"l", "o", "G", "i", "n">>, <<"L", "O", "G", "I", "N">>, <<"E", "S", "S", "_", "2">>, <<"4", "2">>}
Datas == {NoData, Data(<<>>), Data(<<StrParam(<<"k">>, <<"v">>), NullParam(<<"n">>)>>)}
Bodies ==
  { JsonObject(TextVal(<<"R", "e", "s", "p", "o", "n", "s", "e", "=", "I", "D", "%", "1", "3", "4", "2", "%", "1", "3", "%", "1", "4">>)),
    JsonObject(ListVal(<<>>)),
    JsonObject(DictVal(<<"v", "a", "l", "u", "e">> :> <<"2", "0", "1", "7", "-", "0", "7", "-", "0", "6", "T", "1", "2", ":", "2", "1", ":", "5", "9", ".", "0", "+", "0", "0", "0", "0">>)),
    JsonNoReturn,
    JsonOther,
    NotJson(<<"R", "e", "s", "p", "o", "n", "s", "e", "=", "N", "A", "M", "E", "%", "1", "3", "F", "o", "o", "%", "1", "3", "%", "1", "4">>),
    NotJson(<<"<", "h", "t", "m", "l", ">">>) }
ClientStatuses == {199, 200, 300, 301, 400, 401, 402, 500, 502, 503, 600, 601}

\* What the transport may do with a POST of a client call: a success
\* carries any of the bodies.
ClientAnswers(sent) ==
  {ConnectionError} \cup
  { Response(st, b, NoResponseHeaders) :
      st \in {t \in NextStatuses(ClientStatuses, sent) : IsSuccess(t)},
      b \in Bodies } \cup
  { Response(st, NotJson(<<>>), NoResponseHeaders) :
      st \in {t \in NextStatuses(ClientStatuses, sent) : ~IsSuccess(t)} }

\* The client holds an ESM object that is new, or that a login has left
\* with its session headers; the server holds a few alarms.
InitClient ==
  /\ InitESM
  /\ _headers \in {JsonHeaders} \cup {SessionHeaders(h) : h \in LoginHeaders}
  /\ pc = "client"
  /\ db = Run(42, 1, "newest", 0, 2000000)
  /\ start = IsoText(db.from)
  /\ end = IsoText(db.to)
  /\ alarms = <<>>
  /\ full_list = <<>>
  /\ fetched = <<>>
  /\ sizes = <<>>
  /\ nfetch = 0
  /\ ret = NoReturn
  /\ cin = <<>>
  /\ cout = <<>>

\* self._resp['value'] of line 166.
Subscript(v, key) ==
  IF v.kind # "dict" THEN [err |-> "TypeError", value |-> NoneVal]
  ELSE IF key \notin DOMAIN v.map THEN [err |-> "KeyError", value |-> NoneVal]
  ELSE [err |-> "", value |-> TextVal(v.map[key])]

\* What the caller of post does with what post returned: time takes the
\* 'value' of it, get_users, export_alarms and the client return it.
Explicit(t) == [err |-> t.err, value |-> t.value, explicit |-> TRUE]
Returned(caller, o) ==
  IF caller = "time" THEN Explicit(Subscript(o.value, <<"v", "a", "l", "u", "e">>))
  ELSE [err |-> "", value |-> o.value, explicit |-> o.explicit]

\* The call ends: it returns to the client, or raises.
ClientReturn(r) ==
  /\ pc' = "returned"
  /\ ret' = r
  /\ raised' = r.err
  /\ UNCHANGED <<exit, said>>

\* What a client call does with the outcome of one POST.
ClientPosted(caller, o) ==
  /\ inpost' = (o.kind = "retry")
  /\ CASE o.kind = "exit" -> Die("", Unable) /\ ret' = ret
       [] o.kind = "raise" ->
            ClientReturn([err |-> o.err, value |-> NoneVal, explicit |-> FALSE])
       [] o.kind = "retry" -> UNCHANGED <<pc, exit, raised, said, ret>>
       [] o.kind = "return" -> ClientReturn(Returned(caller, o))

\* A call of post, lines 191 to 215: the arguments are recorded, and
\* the request is sent unless the method is empty or the data cannot be
\* encoded.
CallPost(method, data, p, callback, raw, headers, caller, answers) ==
  /\ _headers' = headers
  /\ IF p.err # ""
     THEN /\ call' = Called(method, data, callback, raw, caller)
          /\ ClientReturn([err |-> p.err, value |-> NoneVal, explicit |-> FALSE])
          /\ UNCHANGED <<req, nreq, posts, n500, failed, status, body, hdrs, inpost>>
     ELSE \E x \in answers :
            /\ Posted(method, data, p, callback, raw, headers, caller, x)
            /\ ClientPosted(caller, Outcome(method, callback, raw, x))

\* esm.post(method, data, callback, raw, headers)
ClientPost ==
  /\ pc = "client"
  /\ ~inpost
  /\ \E method \in Methods, data \in Datas, callback \in BOOLEAN,
        raw \in BOOLEAN, headers \in {NoHeaders, _headers} :
       CallPost(method, data, PostPrepare(method, data), callback, raw, headers,
                "post", ClientAnswers(0))
  /\ UNCHANGED <<mainvars, db, nfetch, codecvars>>

\* esm.time(), lines 155 to 166.
ClientTime ==
  /\ pc = "client"
  /\ ~inpost
  /\ CallPost(<<"e", "s", "s", "m", "g", "t", "G", "e", "t", "E", "S", "S", "T", "i", "m", "e">>, NoData,
              PostPrepare(<<"e", "s", "s", "m", "g", "t", "G", "e", "t", "E", "S", "S", "T", "i", "m", "e">>, NoData),
              FALSE, FALSE, _headers, "time", ClientAnswers(0))
  /\ UNCHANGED <<mainvars, db, nfetch, codecvars>>

\* esm.get_users(passwd), lines 168 to 179.
\* {"authPW": {"value": passwd}} of line 177.
UsersData ==
  Data(<<ObjParam(<<"a", "u", "t", "h", "P", "W">>,
                  JsonDumps(<<StrParam(<<"v", "a", "l", "u", "e">>, password)>>))>>)
ClientGetUsers ==
  /\ pc = "client"
  /\ ~inpost
  /\ CallPost(<<"u", "s", "e", "r", "G", "e", "t", "U", "s", "e", "r", "L", "i", "s", "t">>, UsersData,
              PostPrepare(<<"u", "s", "e", "r", "G", "e", "t", "U", "s", "e", "r", "L", "i", "s", "t">>, UsersData),
              FALSE, FALSE, _headers, "get_users", ClientAnswers(0))
  /\ UNCHANGED <<mainvars, db, nfetch, codecvars>>

\* esm.export_alarms(user, start, end), lines 182 to 188.
ClientExportPost(m, p) ==
  CallPost(m, NoData, p, FALSE, FALSE, _headers, "export_alarms",
           AlarmAnswers(p.url, 0))
ClientExport(m) == ClientExportPost(m, PostPrepare(m, NoData))
ClientExportAlarms ==
  /\ pc = "client"
  /\ ~inpost
  /\ nfetch' = nfetch + 1
  /\ ClientExport(AlarmsMethod(<<"N", "G", "C", "P">>, start, end))
  /\ UNCHANGED <<mainvars, db, codecvars>>

\* The loop of line 221, within a call of the client.
ClientRetry ==
  /\ pc = "client"
  /\ inpost
  /\ \E x \in IF call.caller = "export_alarms" THEN AlarmAnswers(req.url, posts)
              ELSE ClientAnswers(posts) :
       /\ Reposted(x)
       /\ ClientPosted(call.caller,
                       Outcome(call.method, call.callback, call.raw, x))
  /\ UNCHANGED <<mainvars, db, nfetch, codecvars>>

\* esm.login(), lines 124 to 147.
ClientLoggedIn(x, o) ==
  IF LoggedIn(x, o)
  THEN /\ _headers' = SessionHeaders(x.headers)
       /\ ClientReturn(NoReturn)
  ELSE /\ _headers' = BasicHeaders
       /\ LoginFailed(x, o)
       /\ ret' = ret
ClientLogin ==
  /\ pc = "client"
  /\ ~inpost
  /\ \E x \in LoginAnswers :
       /\ LoginPosted(x)
       /\ ClientLoggedIn(x, Outcome(<<"l", "o", "g", "i", "n">>, FALSE, TRUE, x))
  /\ UNCHANGED <<mainvars, db, nfetch, codecvars>>

\* esm.logout(), lines 149 to 153.
ClientLogout ==
  /\ pc = "client"
  /\ ~inpost
  /\ \E x \in LogoutAnswers :
       /\ req' = [verb |-> "DELETE", url |-> _base_url \o <<"l", "o", "g", "o", "u", "t">>,
                  body |-> [form |-> "None", text |-> <<>>], headers |-> _headers]
       /\ nreq' = nreq + 1
       /\ Received(x)
       /\ ClientReturn([err |-> IF x.failed THEN "ConnectionError" ELSE "",
                        value |-> NoneVal, explicit |-> FALSE])
  /\ UNCHANGED <<_headers, call, posts, n500, inpost, mainvars, db, nfetch,
                 codecvars>>

\* The client goes on after a logout that returned: its next call is made
\* on the same ESM object.
ClientAgain ==
  /\ pc = "returned"
  /\ req.verb = "DELETE"
  /\ raised = ""
  /\ nreq < MaxRequests
  /\ pc' = "client"
  /\ UNCHANGED <<exit, raised, said, postvars, mainvars, nfetch, ret, db, codecvars>>

NextClient ==
  \/ ClientAgain
  \/ ClientPost
  \/ ClientTime
  \/ ClientGetUsers
  \/ ClientExportAlarms
  \/ ClientRetry
  \/ ClientLogin
  \/ ClientLogout

SpecClient == InitClient /\ [][NextClient]_vars


(***************************************************************************)
(* The dispatch of post by the case of the command name (C1)               *)
(***************************************************************************)

\* The callback of the current call applied to v, when the call has one.
C1_Through(v) == IF call.callback THEN Callback(v) ELSE v

\* The text post takes from the last response: the body that is not JSON,
\* or the 'return' of the JSON object when that is a str.
C1_HasText ==
  \/ body.form = "text"
  \/ body.form = "object" /\ body.hasReturn /\ body.ret.kind = "str"
C1_Text == IF body.form = "text" THEN body.text ELSE body.ret.text

\* A call of post made by the client itself has returned or raised after a
\* response with a status of 200 to 300 that carries a text.
C1_Answered ==
  /\ pc = "returned"
  /\ call.caller = "post"
  /\ ~call.raw
  /\ posts >= 1
  /\ 200 <= status /\ status <= 300
  /\ C1_HasText

\* C1 (amended): a call of post with a non-empty command name takes the
\* legacy branch exactly when the name equals its upper-cased form.  In the
\* legacy branch a call without data raises TypeError before any request;
\* otherwise the request goes to the internal URL with the _format_params
\* encoding of the data, and the text of a successful response is decoded
\* by _format_resp.  In the other branch the request goes to the base URL
\* plus the name, its body is the JSON text of the data only when the data
\* is a non-empty mapping (no body is built from None or {}), and the text
\* of a successful response is returned without decoding.
C1_Dispatch ==
  call.method # <<>> =>
    IF call.method = Upper(call.method)
    THEN /\ call.data.none => posts = 0 /\ pc = "returned" /\ raised = "TypeError"
         /\ posts >= 1 =>
              /\ req.url = _int_url
              /\ req.body = TextBody(_format_params(call.method, call.data.items))
         /\ C1_Answered =>
              /\ raised = _format_resp(C1_Text).err
              /\ raised = "" =>
                   ret.value = C1_Through(DictVal(_format_resp(C1_Text).value))
    ELSE /\ posts >= 1
         /\ req.url = _base_url \o call.method
         /\ req.body = IF ~call.data.none /\ call.data.items # <<>>
                       THEN TextBody(JsonDumps(call.data.items))
                       ELSE [form |-> IF call.data.none THEN "None" ELSE "dict",
                             text |-> <<>>]
         /\ C1_Answered =>
              raised = "" /\ ret.value = C1_Through(TextVal(C1_Text))

\* A mixed-case name went to the base URL with a JSON body, and the legacy
\* text of the response came back as it was.
C1_Witness ==
  /\ C1_Answered
  /\ call.method = <<"l", "o", "G", "i", "n">>
  /\ call.data.items # <<>>
  /\ req.url = _base_url \o <<"l", "o", "G", "i", "n">>
  /\ req.body.form = "text"
  /\ ret.value = TextVal(<<"R", "e", "s", "p", "o", "n", "s", "e", "=", "N", "A", "M", "E", "%", "1", "3", "F", "o", "o", "%", "1", "3", "%", "1", "4">>)

\* json.dumps(data) of the data of a call: 'null' for None.
C1_Json(data) == IF data.none THEN <<"n", "u", "l", "l">> ELSE JsonDumps(data.items)

\* C1 as stated: legacy exactly when the name equals its upper-cased form,
\* and in every other case the body is the JSON serialization of the data.
C1_AsStated ==
  call.method # <<>> =>
    IF call.method = Upper(call.method)
    THEN /\ posts >= 1
         /\ req.url = _int_url
         /\ req.body = TextBody(_format_params(call.method, call.data.items))
    ELSE /\ posts >= 1
         /\ req.url = _base_url \o call.method
         /\ req.body = TextBody(C1_Json(call.data))

(***************************************************************************)
(* The export loop of main (C2, C3)                                        *)
(***************************************************************************)

\* The batch sizes received so far, but for the last one.
C2_Earlier == SubSeq(sizes, 1, Len(sizes) - 1)

\* C2: the first k-1 batches having exactly 500 records and the k-th fewer,
\* main has called export_alarms exactly k times and never calls it again;
\* while every batch so far has 500 records main is in its loop (or the
\* run has ended on a failure of the next fetch), where it has made one
\* call per batch received and at most one more.
C2_Fetches ==
  /\ \A i \in 1..(Len(sizes) - 1) : sizes[i] = 500
  /\ (sizes # <<>> /\ sizes[Len(sizes)] < 500) =>
       /\ nfetch = Len(sizes)
       /\ pc \in {"merge", "logout", "done", "exit"}
       /\ pc = "exit" => raised = "ConnectionError"
  /\ (sizes # <<>> /\ sizes[Len(sizes)] = 500) =>
       /\ pc \in {"fetch", "exit"}
       /\ nfetch \in {Len(sizes), Len(sizes) + 1}
  /\ pc \in {"merge", "logout", "done"} =>
       sizes # <<>> /\ sizes[Len(sizes)] < 500
  /\ sizes = <<500, 500, 237>> => nfetch = 3
  /\ (Len(sizes) = 1 /\ sizes[1] < 500) => nfetch = 1

\* Batches of 500, 500 and 237 records were fetched, and main is done.
C2_Witness ==
  /\ pc = "done"
  /\ sizes = <<500, 500, 237>>
  /\ nfetch = 3

\* The elements of a list as a bag.
C3_Bag(list) == BagOfAll(LAMBDA i : list[i], SetToBag(1..Len(list)))

\* The sum of a sequence of numbers.
RECURSIVE C3_Sum(_)
C3_Sum(ns) == IF ns = <<>> THEN 0 ELSE Head(ns) + C3_Sum(Tail(ns))

\* C3: up to the merge full_list is the concatenation of the batches in
\* fetch order; once the loop has ended and the merge is done it is sorted
\* ascending by alarm id, has as many records as the batches together, and
\* holds every fetched record as many times as it was fetched.
C3_Merged ==
  /\ pc \in {"fetch", "merge"} => full_list = fetched
  /\ pc \in {"logout", "done"} =>
       /\ \A i \in 1..(Len(full_list) - 1) :
            full_list[i].id.value <= full_list[i + 1].id.value
       /\ Len(full_list) = C3_Sum(sizes)
       /\ Len(full_list) = Len(fetched)
       /\ C3_Bag(full_list) = C3_Bag(fetched)

\* Three batches were merged, and the record on the boundary of the first
\* two, fetched twice, is in the output twice.
C3_Witness ==
  /\ pc = "done"
  /\ sizes = <<500, 500, 237>>
  /\ Len(full_list) = 1237
  /\ fetched[500] = fetched[501]
  /\ \E i \in 1..(Len(full_list) - 1) :
       full_list[i] = fetched[500] /\ full_list[i + 1] = fetched[500]

(***************************************************************************)
(* The end of the export loop (C4)                                         *)
(***************************************************************************)

\* C4: the server answering every fetch with at most 500 of the alarms in
\* the window asked for, every batch of 500 records narrows the window (end
\* moves to an earlier second), so that main does not ask for the same
\* window again and the loop comes to a batch of fewer than 500 records.
C4_Narrows ==
  [][(pc = "fetch" /\ pc' = "fetch" /\ Len(sizes') = Len(sizes) + 1)
       => ParseIso(end') < ParseIso(end)]_vars

\* Main has fetched the same window twice and is about to fetch it again:
\* the last two batches have 500 records and end with the same record, whose
\* date is end.
C4_Witness ==
  /\ pc = "fetch"
  /\ ~inpost
  /\ Len(sizes) >= 2
  /\ sizes[Len(sizes)] = 500 /\ sizes[Len(sizes) - 1] = 500
  /\ fetched[Len(fetched)] = fetched[Len(fetched) - 500]
  /\ SubSeq(fetched, Len(fetched) - 499, Len(fetched))
       = SubSeq(fetched, Len(fetched) - 999, Len(fetched) - 500)
  /\ end = convert_date(fetched[Len(fetched)].triggeredDate)

(***************************************************************************)
(* login (C5, C6)                                                          *)
(***************************************************************************)

\* The response to the login request of main has come: nothing was sent
\* after it yet, or the run has ended on it.
C5_LoginAnswered ==
  /\ call.caller = "login"
  /\ nreq >= 1
  /\ ~failed

\* C5: the status of the login response being 400 or 401, the run has
\* ended with the message of invalid credentials and exit status 1, the
\* stored headers hold no Cookie, X-Xsrf-Token or SID, the login request is
\* the only request sent, and the program takes no further step.
C5_InvalidLogin ==
  (C5_LoginAnswered /\ status \in {400, 401}) =>
    /\ pc = "exit"
    /\ exit = "1"
    /\ said = "Invalid username or password for the ESM"
    /\ DOMAIN _headers \cap {"Cookie", "X-Xsrf-Token", "SID"} = {}
    /\ nreq = 1
    /\ nfetch = 0
    /\ req.url = _base_url \o <<"l", "o", "g", "i", "n">>
    /\ ~ENABLED Next

\* The login of main was answered with 401, and the run has ended.
C5_Witness ==
  /\ C5_LoginAnswered
  /\ status = 401
  /\ pc = "exit"
  /\ said = "Invalid username or password for the ESM"

\* The header set login stores from the headers of its response.
C6_Session ==
  ("Content-Type" :> <<"a", "p", "p", "l", "i", "c", "a", "t", "i", "o", "n", "/", "j", "s", "o", "n">>)
    @@ ("Cookie" :> hdrs.SetCookie)
    @@ ("X-Xsrf-Token" :> hdrs.XsrfToken)
    @@ ("SID" :> hdrs.Location)

\* C6: for every status of the login response exactly one of three things
\* has happened: on 400 and 401 the run ended with the message of invalid
\* credentials; on 402 to 600 it ended with the login error message and
\* exit status 1; on every other status, a success or not, the stored
\* headers are Content-Type with Cookie, X-Xsrf-Token and SID taken from
\* Set-Cookie, Xsrf-Token and Location of the response, and the run goes on.
C6_LoginStatus ==
  C5_LoginAnswered =>
    IF status \in {400, 401}
    THEN /\ pc = "exit" /\ exit = "1"
         /\ said = "Invalid username or password for the ESM"
         /\ _headers # C6_Session
    ELSE IF 402 <= status /\ status <= 600
    THEN /\ pc = "exit" /\ exit = "1"
         /\ said = "ESM Login Error"
         /\ _headers # C6_Session
    ELSE /\ pc = "fetch" /\ exit = ""
         /\ said = ""
         /\ _headers = C6_Session

\* A login answered with 301, no success, has stored the session headers of
\* the response.
C6_Witness ==
  /\ C5_LoginAnswered
  /\ status = 301
  /\ pc = "fetch"
  /\ _headers = C6_Session
  /\ _headers["Cookie"] = <<"J", "W", "T", "=", "a", "1">>

(***************************************************************************)
(* The POSTs of one call of post (C7)                                      *)
(***************************************************************************)

\* C7: a call of post that asked for the raw response has sent exactly one
\* POST, whatever the status; any other call has sent one POST and one more
\* for every response with status 500, it stands in its loop exactly when
\* the last response has status 500, and it has returned only with another
\* status; every POST of the call carries the URL and the body built from
\* the arguments of the call, and the headers of the call (those login
\* has built, for the call login makes); the requests sent before the call
\* are those of the logouts before it; nothing limits the number of POSTs:
\* a call standing in its loop can send again.
C7_Posts ==
  posts >= 1 =>
    /\ call.raw => posts = 1 /\ ~inpost
    /\ ~call.raw =>
         /\ posts = (IF failed \/ status # 500 THEN 1 ELSE 0) + n500
         /\ inpost <=> (~failed /\ status = 500)
         /\ pc = "returned" => status # 500
    /\ (~failed /\ status # 500) => ~inpost
    /\ req.verb = "POST"
    /\ req.url = PostPrepare(call.method, call.data).url
    /\ req.body = PostPrepare(call.method, call.data).body
    /\ call.caller # "login" => req.headers = _headers
    /\ call.caller = "login" => "Authorization" \in DOMAIN req.headers
    /\ posts <= nreq
    /\ nreq - posts < MaxRequests
    /\ inpost => ENABLED ClientRetry

\* A call that did not ask for the raw response has returned after two
\* responses with status 500 and a third with status 502: three POSTs.
C7_Witness ==
  /\ pc = "returned"
  /\ ~call.raw
  /\ n500 = 2
  /\ posts = 3
  /\ status = 502

(***************************************************************************)
(* What a call of post returns (C8)                                        *)
(***************************************************************************)

\* A call of post by the client itself, not asking for the raw response,
\* has ended after a response.
C8_Ended ==
  /\ pc = "returned"
  /\ call.caller = "post"
  /\ ~call.raw
  /\ posts >= 1

\* The 'return' field of the JSON body (None when the object has none), or
\* the text of a body that is not JSON.
C8_Value ==
  IF body.form = "object" THEN (IF body.hasReturn THEN body.ret ELSE NoneVal)
  ELSE TextVal(body.text)

\* The exception the processing of a successful response raises, "" for
\* none: JSON that is no object has no get; the legacy decoding needs a str
\* that holds 'Response=' and pairs with a token each.
C8_Error ==
  IF body.form = "other" THEN "AttributeError"
  ELSE IF call.method # Upper(call.method) THEN ""
  ELSE IF C8_Value.kind # "str" THEN "TypeError"
  ELSE _format_resp(C8_Value.text).err

\* The value after the legacy decoding, when the command is legacy.
C8_Decoded ==
  IF call.method = Upper(call.method)
  THEN DictVal(_format_resp(C8_Value.text).value)
  ELSE C8_Value

\* C8 (amended): a call of post that is not raw ends with a final status
\* other than 500.  With the status outside [200, 300] it returns None and
\* raises nothing.  With the status in [200, 300], 300 included, it either
\* raises (AttributeError on JSON that is no object or on a legacy text
\* without 'Response=', TypeError on a legacy 'return' that is no str,
\* IndexError on an empty pair) or returns the 'return' field of the JSON
\* body (None when there is none) or the text of a body that is not JSON,
\* decoded when the command is legacy, passed through the callback when
\* one is supplied.
C8_Result ==
  C8_Ended =>
    /\ status # 500
    /\ IF 200 <= status /\ status <= 300
       THEN /\ raised = C8_Error
            /\ raised = "" =>
                 /\ ret.explicit
                 /\ ret.value = C1_Through(C8_Decoded)
       ELSE /\ raised = ""
            /\ ~ret.explicit
            /\ ret.value = NoneVal

\* A legacy call with a callback, answered with status 300, has returned
\* the decoded response through the callback.
C8_Witness ==
  /\ C8_Ended
  /\ status = 300
  /\ call.method = <<"E", "S", "S", "_", "2">>
  /\ call.callback
  /\ raised = ""
  /\ ret.value = Callback(DictVal(<<"I", "D">> :> <<"4", "2">>))

\* C8 as stated: the call produces a result exactly when the final status
\* is in [200, 300], and returns None without an error otherwise.
C8_AsStated ==
  C8_Ended =>
    IF 200 <= status /\ status <= 300
    THEN /\ raised = ""
         /\ ret.explicit
         /\ ret.value = C1_Through(C8_Decoded)
    ELSE /\ raised = ""
         /\ ~ret.explicit
         /\ ret.value = NoneVal

(***************************************************************************)
(* A connection failure of a POST (C9)                                     *)
(***************************************************************************)

\* C9: a POST of main having met a connection failure (the login request,
\* an alarm fetch, or the retry of one), the message of _post is printed,
\* the process has ended with exit status 1 and no exception, the request
\* was sent once (after as many POSTs of the call as were answered with
\* status 500), and the program takes no further step.
C9_Fatal ==
  (failed /\ req.verb = "POST") =>
    /\ pc = "exit"
    /\ exit = "1"
    /\ said = "Unable to connect to ESM"
    /\ raised = ""
    /\ ~inpost
    /\ posts = 1 + n500
    /\ call.caller = "login" => nreq = 1
    /\ ~ENABLED Next

\* The second retry of the second alarm fetch of main met a connection
\* failure, and the run has ended.
C9_Witness ==
  /\ failed
  /\ call.caller = "export_alarms"
  /\ nfetch = 2
  /\ posts = 3
  /\ pc = "exit"
  /\ exit = "1"

(***************************************************************************)
(* The legacy codec on its own: a parameter mapping is encoded, and the    *)
(* encoding, or a response that carries its pairs, is decoded              *)
(***************************************************************************)

\* A mapping has at most MaxEntries entries.
MaxEntries == 3

\* The keys of the mappings, in insertion order, and the values: plain,
\* empty, with a percent-escaped separator, with another escape, with a
\* blank, with a separator as it is; and the command names.
CodecKeys == <<<<"I", "D">>, <<"N", "A", "M", "E">>, <<"I", "T", "E", "M", "S">>, <<"T", "Y", "P", "E">>, <<"U", "S", "E", "R">>>>
CodecValues == {<<"v">>, <<>>, <<"%", "2", "5", "1", "3">>, <<"x", "%", "4", "1">>, <<"a", " ", "b">>, <<"a", "%", "1", "4", "b">>}
CodecCommands == {<<"C", "M", "D">>, <<"G", "E", "T", "_", "X">>}

\* The entry of key number i: a str value, or None.
CodecEntry(i, v) ==
  IF v = NoValue THEN NullParam(CodecKeys[i]) ELSE StrParam(CodecKeys[i], v)
CodecParams ==
  UNION { { [i \in 1..n |-> CodecEntry(i, f[i])] :
              f \in [1..n -> CodecValues \cup {NoValue}] } : n \in 0..MaxEntries }

\* The texts the functions are applied to on their own: response texts with
\* and without the marker 'Response=', dates as the server writes them, and
\* data with and without the codes of the tables of dehexify.
CodecTexts ==
  { <<"R", "e", "s", "p", "o", "n", "s", "e", "=", "I", "D", "%", "1", "3", "4", "2", "%", "1", "3", "%", "1", "4", "N", "A", "M", "E", "%", "1", "3", "F", "o", "o", "%", "1", "3", "%", "1", "4">>,
    <<"R", "e", "s", "p", "o", "n", "s", "e", "=">>,
    <<>>,
    <<"b", "u", "s", "y">>,
    <<"r", "e", "s", "p", "o", "n", "s", "e", "=", "I", "D", "%", "1", "3", "1", "%", "1", "3", "%", "1", "4">>,
    <<"R", "e", "s", "p", "o", "n", "s", "e", " ", "I", "D", "%", "1", "3", "1", "%", "1", "3", "%", "1", "4">>,
    <<"I", "D", "%", "1", "3", "4", "2", "%", "1", "3", "%", "1", "4">>,
    <<"R", "e", "q", "u", "e", "s", "t", "=", "A", "P", "I", "%", "1", "3", "C", "M", "D", "%", "1", "3", "%", "1", "4">>,
    <<"<", "h", "t", "m", "l", ">", "\n", "R", "e", "s", "p", "o", "n", "s", "e", "=", "A", "%", "1", "3", "b", "%", "1", "3", "%", "1", "4">>,
    <<"0", "7", "/", "2", "3", "/", "2", "0", "1", "8", " ", "1", "4", ":", "0", "5", ":", "0", "9">>,
    <<"1", "2", "/", "3", "1", "/", "1", "9", "9", "9", " ", "2", "3", ":", "5", "9", ":", "5", "9">>,
    <<"0", "1", "/", "0", "2", "/", "2", "0", "0", "3", " ", "0", "4", ":", "0", "5", ":", "0", "6">>,
    <<"2", "0", "1", "8", "-", "0", "7", "-", "2", "3", "T", "1", "4", ":", "0", "5", ":", "0", "9">>,
    <<"0", "7", "/", "2", "3", "/", "2", "0", "1", "8">>,
    <<"a", "b", "c">>,
    <<"x", "%", "4", "1">>,
    <<"a", "%", "2", "C", "b">>,
    <<"a", "%", "2", "0", "b">>,
    <<"a", "%", "2", "5", "2", "0", "b">>,
    <<"%", "%", "1", "1", "1", "1">>,
    <<"a", "<28>", "b", "<17>", "c", "<18>">>,
    <<"a", "%", "3", "A", "b", "%", "7", "C", "(", "c", ")">>,
    <<"1", "0", "0", "%">> }

\* An input is a call of _format_params, or a text.
CodecInputs ==
  [kind : {"call"}, cmd : CodecCommands, params : CodecParams, text : {<<>>}]
    \cup [kind : {"text"}, cmd : {<<>>}, params : {<<>>}, text : CodecTexts]

NoCodec == [err |-> "", text |-> <<>>, value |-> <<>>]

InitCodec ==
  /\ InitESM
  /\ _headers = JsonHeaders
  /\ pc = "codec"
  /\ db = Run(0, 1, "newest", 0, 2000000)
  /\ start = IsoText(db.from)
  /\ end = IsoText(db.to)
  /\ alarms = <<>>
  /\ full_list = <<>>
  /\ fetched = <<>>
  /\ sizes = <<>>
  /\ nfetch = 0
  /\ ret = NoReturn
  /\ cin \in CodecInputs
  /\ cout = NoCodec

idle == <<exit, raised, said, postvars, mainvars, nfetch, ret, db>>

\* _format_params(cmd, **params)
CodecEncode ==
  /\ pc = "codec"
  /\ cin.kind = "call"
  /\ cout' = [err |-> "", text |-> _format_params(cin.cmd, cin.params), value |-> <<>>]
  /\ pc' = "encoded"
  /\ UNCHANGED <<idle, cin>>

\* The server answers with 'Response=' and the pairs of the request: the
\* encoding without its 'Request=API%13' + cmd + '%13%14'.
CodecEcho ==
  /\ pc = "encoded"
  /\ cout' = [cout EXCEPT !.text = ResponseMarker
                \o From(cout.text, Len(RequestPrefix(cin.cmd)) + 1)]
  /\ pc' = "echoed"
  /\ UNCHANGED <<idle, cin>>

\* _format_resp(resp) of the encoding itself, or of the server's answer.
Decoding(text, d) == [err |-> d.err, text |-> text, value |-> d.value]
CodecDecode ==
  /\ pc \in {"encoded", "echoed"}
  /\ cout' = Decoding(cout.text, _format_resp(cout.text))
  /\ pc' = IF pc = "encoded" THEN "roundtrip" ELSE "answered"
  /\ UNCHANGED <<idle, cin>>

\* _format_resp(resp) of a text.
CodecDecodeText ==
  /\ pc = "codec"
  /\ cin.kind = "text"
  /\ cout' = Decoding(cin.text, _format_resp(cin.text))
  /\ pc' = "decoded"
  /\ UNCHANGED <<idle, cin>>

\* convert_date(d) of a text.
CodecConvertDate ==
  /\ pc = "codec"
  /\ cin.kind = "text"
  /\ cout' = [err |-> "", text |-> cin.text, value |-> convert_date(cin.text)]
  /\ pc' = "converted"
  /\ UNCHANGED <<idle, cin>>

\* dehexify(data) of a text, and dehexify of its result.
CodecDehexify ==
  /\ pc = "codec"
  /\ cin.kind = "text"
  /\ cout' = [err |-> "", text |-> cin.text, value |-> dehexify(cin.text)]
  /\ pc' = "dehexified"
  /\ UNCHANGED <<idle, cin>>
CodecDehexifyAgain ==
  /\ pc = "dehexified"
  /\ cout' = [err |-> "", text |-> cout.value, value |-> dehexify(cout.value)]
  /\ pc' = "dehexified again"
  /\ UNCHANGED <<idle, cin>>

NextCodec ==
  \/ CodecEncode
  \/ CodecEcho
  \/ CodecDecode
  \/ CodecDecodeText
  \/ CodecConvertDate
  \/ CodecDehexify
  \/ CodecDehexifyAgain

SpecCodec == InitCodec /\ [][NextCodec]_vars

(***************************************************************************)
(* Encoding and decoding (C10)                                             *)
(***************************************************************************)

\* The entries of the mapping that _format_params keeps: those whose value
\* is not None.
C10_Kept == {i \in 1..Len(cin.params) : ~cin.params[i].none}

\* A text without white space and without the separators '%13' and '%14'.
C10_Clean(t) ==
  /\ \A i \in 1..Len(t) : ~IsSpace(t[i])
  /\ Find(t, FS) = 0
  /\ Find(t, PS) = 0

\* The values of the mapping hold the separators in escaped form only.
C10_AllClean == \A i \in C10_Kept : C10_Clean(cin.params[i].val)

\* The last token of the pair of entry e: its value, or its key when the
\* value is empty.
C10_Token(e) == IF e.val = <<>> THEN e.key ELSE e.val

C11_Pairs == {i \in 1..Len(cin.params) : ~cin.params[i].none}
C11_Plain ==
  \A i \in C11_Pairs :
    /\ cin.params[i].key # <<"I", "T", "E", "M", "S">>
    /\ \A j \in 1..Len(cin.params[i].val) : ~IsSpace(cin.params[i].val[j])
    /\ Find(cin.params[i].val, FS) = 0
    /\ Find(cin.params[i].val, PS) = 0

\* C11: for 'Response=' followed by pairs key%13value%13%14 with distinct
\* keys other than ITEMS, _format_resp returns the dict that maps each key
\* to the percent-decoding of its own value and holds no other key; an
\* empty value decodes to the empty string.
C11_Decodes ==
  (pc = "answered" /\ C11_Plain) =>
    /\ cout.err = ""
    /\ DOMAIN cout.value = {cin.params[i].key : i \in C11_Pairs}
    /\ \A i \in C11_Pairs :
         cout.value[cin.params[i].key] = Unquote(cin.params[i].val)

\* 'Response=ID%13%13%14NAME%13v%13%14' was decoded: ID, whose value is
\* empty, came back with its own name as value.
C11_Witness ==
  /\ pc = "answered"
  /\ cin.params = <<StrParam(<<"I", "D">>, <<>>), StrParam(<<"N", "A", "M", "E">>, <<"v">>)>>
  /\ cout.text = <<"R", "e", "s", "p", "o", "n", "s", "e", "=", "I", "D", "%", "1", "3", "%", "1", "3", "%", "1", "4", "N", "A", "M", "E", "%", "1", "3", "v", "%", "1", "3", "%", "1", "4">>
  /\ cout.err = ""
  /\ cout.value = (<<"I", "D">> :> <<"I", "D">>) @@ (<<"N", "A", "M", "E">> :> <<"v">>)

(***************************************************************************)
(* A response without the marker (C12)                                     *)
(***************************************************************************)

\* The text holds 'Response=' nowhere.
C12_NoMarker(t) ==
  \A i \in 1..(Len(t) - Len(ResponseMarker) + 1) :
    SubSeq(t, i, i + Len(ResponseMarker) - 1) # ResponseMarker

\* C12: _format_resp of a text that does not hold the marker 'Response='
\* fails (re.search returns None, and .group raises AttributeError) and
\* returns no dict: neither an empty one nor a partial one.
C12_Fails ==
  (pc \in {"decoded", "roundtrip"} /\ C12_NoMarker(cout.text)) =>
    /\ cout.err = "AttributeError"
    /\ cout.value = <<>>

\* 'response=ID%131%13%14', the marker in lower case, was refused.
C12_Witness ==
  /\ pc = "decoded"
  /\ cin.text = <<"r", "e", "s", "p", "o", "n", "s", "e", "=", "I", "D", "%", "1", "3", "1", "%", "1", "3", "%", "1", "4">>
  /\ cout.text = cin.text
  /\ C12_NoMarker(cout.text)
  /\ cout.err = "AttributeError"

(***************************************************************************)
(* The date of an alarm as a bound (C13)                                   *)
(***************************************************************************)

\* C13: for a text d of 19 characters 'MM/DD/YYYY HH:MM:SS', convert_date
\* returns 'YYYY-MM-DDTHH:MM:SS.000Z': the year from positions 6 to 9, the
\* month from 0 and 1, the day from 3 and 4, the time from 11 to 18 (counted
\* from 0); '07/23/2018 14:05:09' gives '2018-07-23T14:05:09.000Z'.
C13_Converts ==
  (pc = "converted" /\ Len(cout.text) = 19) =>
    /\ Len(cout.value) = 24
    /\ \A i \in 1..4 : cout.value[i] = cout.text[6 + i]
    /\ cout.value[5] = "-"
    /\ \A i \in 1..2 : cout.value[5 + i] = cout.text[i]
    /\ cout.value[8] = "-"
    /\ \A i \in 1..2 : cout.value[8 + i] = cout.text[3 + i]
    /\ cout.value[11] = "T"
    /\ \A i \in 1..8 : cout.value[11 + i] = cout.text[11 + i]
    /\ SubSeq(cout.value, 20, 24) = <<".", "0", "0", "0", "Z">>
    /\ cout.text = <<"0", "7", "/", "2", "3", "/", "2", "0", "1", "8", " ", "1", "4", ":", "0", "5", ":", "0", "9">>
         => cout.value = <<"2", "0", "1", "8", "-", "0", "7", "-", "2", "3", "T", "1", "4", ":", "0", "5", ":", "0", "9", ".", "0", "0", "0", "Z">>

\* '07/23/2018 14:05:09' was converted to '2018-07-23T14:05:09.000Z'.
C13_Witness ==
  /\ pc = "converted"
  /\ cout.text = <<"0", "7", "/", "2", "3", "/", "2", "0", "1", "8", " ", "1", "4", ":", "0", "5", ":", "0", "9">>
  /\ cout.value = <<"2", "0", "1", "8", "-", "0", "7", "-", "2", "3", "T", "1", "4", ":", "0", "5", ":", "0", "9", ".", "0", "0", "0", "Z">>

(***************************************************************************)
(* dehexify on text without codes (C14)                                    *)
(***************************************************************************)

\* The text holds no code of the table.
C14_Without(t, table) == \A k \in 1..Len(table) : Find(t, table[k][1]) = 0
C14_Free(t) == C14_Without(t, hexen) /\ C14_Without(t, uri)

\* C14: for a text t that holds no code of either table, dehexify(t) = t
\* and dehexify(dehexify(t)) = dehexify(t).
C14_Idempotent ==
  /\ (pc = "dehexified" /\ C14_Free(cin.text)) =>
       /\ cout.text = cin.text
       /\ cout.value = cin.text
  /\ (pc = "dehexified again" /\ C14_Free(cin.text)) =>
       /\ cout.text = cin.text
       /\ cout.value = cout.text

\* 'x%41', an escape that is in neither table, went through dehexify twice
\* and is as it was.
C14_Witness ==
  /\ pc = "dehexified again"
  /\ cin.text = <<"x", "%", "4", "1">>
  /\ C14_Free(cin.text)
  /\ cout.text = <<"x", "%", "4", "1">>
  /\ cout.value = <<"x", "%", "4", "1">>

(***************************************************************************)
(* Who changes the stored headers (C15)                                    *)
(***************************************************************************)

\* The step is the sending of the DELETE of logout.
C15_IsLogout == req'.verb = "DELETE" /\ nreq' = nreq + 1

\* C15: the stored headers are changed by login and logout only: a step of
\* any other operation (post with any arguments, also without headers;
\* time; get_users; export_alarms) leaves self._headers as it was.
C15_Frame ==
  [][(call'.caller # "login" /\ ~C15_IsLogout) => _headers' = _headers]_vars

\* The client's first call, post without headers, has returned: the stored
\* headers, which were those of the constructor or of a login, are None,
\* and the request went out without them.
C15_Witness ==
  /\ pc = "returned"
  /\ call.caller = "post"
  /\ nreq = 1
  /\ posts = 1
  /\ status = 200
  /\ req.headers = NoHeaders
  /\ _headers = NoHeaders

(***************************************************************************)
(* The session after logout (C16)                                          *)
(***************************************************************************)

\* The headers hold no cookie, no anti-forgery token and no session id.
C16_Cleared(h) ==
  \A k \in {"Cookie", "X-Xsrf-Token", "SID"} : k \in DOMAIN h => h[k] = NoValue

\* C16: logout clears the stored headers, and no request of a call made
\* after logout carries the cookie, the token or the id of the session.
C16_Closed ==
  [][/\ C15_IsLogout => C16_Cleared(_headers')
     /\ (req.verb = "DELETE" /\ req'.verb = "POST" /\ call'.caller # "login")
          => C16_Cleared(req'.headers)]_vars

\* After logout the client called time(): the request carries the cookie,
\* the token and the id of the session logout was to end.
C16_Witness ==
  /\ pc = "returned"
  /\ call.caller = "time"
  /\ nreq = 2
  /\ posts = 1
  /\ req.verb = "POST"
  /\ {"Cookie", "SID"} \subseteq DOMAIN req.headers
  /\ req.headers["Cookie"] = <<"J", "W", "T", "=", "a", "1">>
  /\ req.headers["SID"] = <<"/", "s", "i", "d", "/", "7">>
  /\ _headers = req.headers

(***************************************************************************)
(* How an alarm fetch is dispatched (C17)                                  *)
(***************************************************************************)

\* The current call of post is the one export_alarms makes, and it has sent
\* a request.
C17_Fetching == call.caller = "export_alarms" /\ posts >= 1 /\ req.verb = "POST"

\* C17 (amended): the command name export_alarms builds is
\* 'alarmGetTriggeredAlarmsPaged?...' with pageSize=0, which holds lower
\* case letters, so post does not take it for a legacy command: every
\* fetch goes to the base URL plus the name, without a body (the data is
\* None), and main's batch is the 'return' of the JSON body as it is (the
\* text of a body that is not JSON), not a dict built by _format_resp.
C17_Modern ==
  C17_Fetching =>
    /\ call.method # Upper(call.method)
    /\ StartsWith(call.method, <<"a", "l", "a", "r", "m", "G", "e", "t", "T", "r", "i", "g", "g", "e", "r", "e", "d", "A", "l", "a", "r", "m", "s", "P", "a", "g", "e", "d", "?", "t", "r", "i", "g", "g", "e", "r", "e", "d", "T", "i", "m", "e", "R", "a", "n", "g", "e", "=", "C", "U", "S", "T", "O", "M", "&", "c", "u", "s", "t", "o", "m", "S", "t", "a", "r", "t", "=">>)
    /\ Find(call.method, <<"&", "p", "a", "g", "e", "S", "i", "z", "e", "=", "0", "&", "p", "a", "g", "e", "N", "u", "m", "b", "e", "r", "=", "0">>) # 0
    /\ call.data = NoData
    /\ req.url = _base_url \o call.method
    /\ req.url # _int_url
    /\ req.body = [form |-> "None", text |-> <<>>]
    /\ (pc \in {"fetch", "merge"} /\ ~inpost) =>
         /\ 200 <= status /\ status <= 300
         /\ Extract(body).err = ""
         /\ Extract(body).value.kind \in {"list", "str"}
         /\ alarms = Extract(body).value.items

\* A fetch has returned the 42 alarms of the server's JSON answer; the
\* request went to the base URL.
C17_Witness ==
  /\ C17_Fetching
  /\ pc = "merge"
  /\ status = 200
  /\ body.form = "object"
  /\ Len(alarms) = 42
  /\ alarms = body.ret.items
  /\ StartsWith(req.url, _base_url \o <<"a", "l", "a", "r", "m", "G", "e", "t", "T", "r", "i", "g", "g", "e", "r", "e", "d", "A", "l", "a", "r", "m", "s", "P", "a", "g", "e", "d", "?">>)

\* C17 as stated: every fetch of export_alarms is a legacy command, sent to
\* the internal URL with the _format_params encoding as its body.
C17_AsStated ==
  C17_Fetching =>
    /\ call.method = Upper(call.method)
    /\ req.url = _int_url
    /\ req.body.form = "text"
    /\ StartsWith(req.body.text, RequestPrefix(call.method))

(***************************************************************************)
(* The bounds of the fetches (C18)                                         *)
(***************************************************************************)

\* The step sends a request of export_alarms.
C18_Sends ==
  call'.caller = "export_alarms" /\ req'.verb = "POST" /\ nreq' = nreq + 1

\* The bounds the request of the step asks for.
C18_Start == QueryParam(req'.url, <<"c", "u", "s", "t", "o", "m", "S", "t", "a", "r", "t", "=">>)
C18_End == QueryParam(req'.url, <<"c", "u", "s", "t", "o", "m", "E", "n", "d", "=">>)

\* C18: every fetch asks for the start main was given; the first fetch asks
\* for the end main was given, every later one for convert_date of the
\* triggeredDate of record 499 of the batch before it; end changes to that
\* value only, which is the time of that record, and, the server returning
\* records of the window asked for only, it never grows.
C18_Window ==
  [][/\ start' = start
     /\ start = IsoText(db.from)
     /\ C18_Sends =>
          /\ C18_Start = IsoText(db.from)
          /\ C18_End = end
          /\ nfetch' = 1 => end = IsoText(db.to)
          /\ nfetch' > 1 =>
               /\ Len(alarms) = PageCap
               /\ end = convert_date(alarms[PageCap].triggeredDate)
     /\ end' # end =>
          /\ Len(alarms') = PageCap
          /\ end' = convert_date(alarms'[PageCap].triggeredDate)
          /\ end' = IsoText(AlarmTime(db, alarms'[PageCap].id.value))
     /\ ParseIso(end') <= ParseIso(end)]_vars

\* The second fetch stands in its loop after a response with status 500:
\* its request asks for the start given and for the date of the last record
\* of the first batch, which is earlier than the end given.
C18_Witness ==
  /\ pc = "fetch"
  /\ inpost
  /\ nfetch = 2
  /\ Len(alarms) = PageCap
  /\ end = convert_date(alarms[PageCap].triggeredDate)
  /\ QueryParam(req.url, <<"c", "u", "s", "t", "o", "m", "E", "n", "d", "=">>) = end
  /\ QueryParam(req.url, <<"c", "u", "s", "t", "o", "m", "S", "t", "a", "r", "t", "=">>) = IsoText(db.from)
  /\ ParseIso(end) < db.to

(***************************************************************************)
(* The encoding of a legacy request (C19)                                  *)
(***************************************************************************)

\* The entries whose value is not None, in the order of the mapping, each
\* as key + '%13' + value + '%13', with '%14' between two of them.
RECURSIVE C19_Pairs(_)
C19_Pairs(es) ==
  IF es = <<>> THEN <<>>
  ELSE IF Head(es).none THEN C19_Pairs(Tail(es))
  ELSE Head(es).key \o <<"%", "1", "3">> \o Head(es).val \o <<"%", "1", "3">>
         \o (IF \A i \in 1..Len(Tail(es)) : Tail(es)[i].none THEN <<>>
             ELSE <<"%", "1", "4">> \o C19_Pairs(Tail(es)))

\* C19: _format_params(cmd, **params) drops the entries whose value is None
\* and returns 'Request=API%13' + cmd + '%13%14', followed, when an entry
\* is left, by the entries in order, each key + '%13' + value + '%13',
\* joined by '%14', and one closing '%14'; the prefix alone otherwise.
C19_Encoded ==
  pc = "encoded" =>
    cout.text =
      <<"R", "e", "q", "u", "e", "s", "t", "=", "A", "P", "I", "%", "1", "3">> \o cin.cmd \o <<"%", "1", "3", "%", "1", "4">>
        \o (IF \A i \in 1..Len(cin.params) : cin.params[i].none THEN <<>>
            ELSE C19_Pairs(cin.params) \o <<"%", "1", "4">>)

\* A mapping of three entries, the second with value None, was encoded.
C19_Witness ==
  /\ pc = "encoded"
  /\ cin.cmd = <<"C", "M", "D">>
  /\ cin.params = <<StrParam(<<"I", "D">>, <<"v">>), NullParam(<<"N", "A", "M", "E">>),
                    StrParam(<<"I", "T", "E", "M", "S">>, <<"a", " ", "b">>)>>
  /\ cout.text = <<"R", "e", "q", "u", "e", "s", "t", "=", "A", "P", "I", "%", "1", "3", "C", "M", "D", "%", "1", "3", "%", "1", "4", "I", "D", "%", "1", "3", "v", "%", "1", "3", "%", "1", "4", "I", "T", "E", "M", "S", "%", "1", "3", "a", " ", "b", "%", "1", "3", "%", "1", "4">>

(***************************************************************************)
(* The order of the requests of main (C20)                                 *)
(***************************************************************************)

\* The step sends a request of export_alarms; the step sends the DELETE of
\* logout.
C20_Fetches ==
  call'.caller = "export_alarms" /\ req'.verb = "POST" /\ nreq' = nreq + 1
C20_LogsOut == req'.verb = "DELETE" /\ nreq' = nreq + 1

\* C20: the first request of main is the POST of login, with the Basic
\* header; main goes on to fetch only after a login response whose status
\* is not 400 to 600, and with the headers login stored from it; every
\* fetch is sent after that, with those headers (Content-Type, Cookie,
\* X-Xsrf-Token, SID) and without Authorization; logout is sent only after
\* a fetch that returned a batch of fewer than 500 records, no request
\* follows it, and a run ended by a rejected login, a connection failure or
\* a fetch without a result sends none.
C20_Order ==
  [][/\ nreq = 0 =>
          /\ pc = "login"
          /\ nreq' = 1
          /\ req'.verb = "POST"
          /\ call'.caller = "login"
          /\ req'.url = _base_url \o <<"l", "o", "g", "i", "n">>
          /\ req'.headers = BasicHeaders
     /\ (pc = "login" /\ pc' # "exit") =>
          /\ pc' = "fetch"
          /\ ~failed'
          /\ status' \notin {400, 401}
          /\ ~(402 <= status' /\ status' <= 600)
          /\ _headers' = SessionHeaders(hdrs')
     /\ pc # "login" => _headers' = _headers
     /\ C20_Fetches =>
          /\ pc = "fetch"
          /\ nreq >= 1
          /\ req'.headers = _headers
          /\ DOMAIN req'.headers = {"Content-Type", "Cookie", "X-Xsrf-Token", "SID"}
          /\ req'.headers # BasicHeaders
     /\ C20_LogsOut =>
          /\ pc = "logout"
          /\ req.verb = "POST"
          /\ call.caller = "export_alarms"
          /\ ~failed
          /\ 200 <= status /\ status <= 300
          /\ Len(alarms) # PageCap
          /\ raised = ""
          /\ said = ""
          /\ req'.headers = _headers
     /\ req.verb = "DELETE" => nreq' = nreq
     /\ (pc' = "exit" /\ pc # "logout") => req'.verb = "POST"]_vars

\* A run of three fetches has ended with its logout: five requests, the
\* last one the DELETE, with the headers of the session.
C20_Witness ==
  /\ pc = "done"
  /\ exit = "0"
  /\ sizes = <<500, 500, 237>>
  /\ nreq = 5
  /\ req.verb = "DELETE"
  /\ req.headers = _headers
  /\ "Cookie" \in DOMAIN req.headers
  /\ req.headers["Cookie"] = <<"J", "W", "T", "=", "a", "1">>
=============================================================================
